---- MODULE Spec2Model ----
(***************************************************************************)
(* A model of utils/soapUtils.ts: the SOAP request sender                  *)
(* (sendSoapRequest), the regex tag extractor (extractXmlValue) and the     *)
(* Handlebars template renderer (loadSoapTemplate / processSoapTemplate).   *)
(*                                                                         *)
(* Optional JavaScript arguments are modelled as sequences of length at    *)
(* most one: << >> is an argument that was not passed (undefined) and      *)
(* <<v>> is the argument v. Texts that the code only copies (endpoint,     *)
(* payload, header values) are TLA+ strings; texts that the code scans     *)
(* character by character (the XML response, the tag, template values)     *)
(* are sequences of one-character strings.                                 *)
(***************************************************************************)
EXTENDS Integers, Sequences, FiniteSets, TLC

VARIABLES
    \* ---- sendSoapRequest -------------------------------------------------
    pc,          \* pc[i]: where invocation i of sendSoapRequest stands
    args,        \* args[i]: the arguments invocation i was called with
    headers,     \* headers[i]: the local `headers` object of invocation i
    response,    \* response[i]: the local `response` binding of invocation i
    posts,       \* posts[i]: the request.post calls invocation i has made
    reply,       \* reply[i]: how the transport settled the POST of invocation i
    result,      \* result[i]: what invocation i delivered to its caller
    console,     \* console[i]: the console lines invocation i has written
    \* ---- extractXmlValue -------------------------------------------------
    xPhase,      \* "input" before the call, "done" after it
    xmlResponse, \* the xmlResponse argument (characters)
    xpath,       \* the xpath argument: the tag name (characters)
    xResult,     \* the value returned: Null or [index, value]
    \* ---- processSoapTemplate --------------------------------------------
    files,       \* the requests directory: template name -> file content
    renders      \* the processSoapTemplate calls made so far, with outcomes

sendVars == <<pc, args, headers, response, posts, reply, result, console>>
extractVars == <<xPhase, xmlResponse, xpath, xResult>>
renderVars == <<files, renders>>
vars == <<pc, args, headers, response, posts, reply, result, console,
          xPhase, xmlResponse, xpath, xResult, files, renders>>

Null == [null |-> TRUE]

Range(s) == {s[k] : k \in DOMAIN s}

(***************************************************************************)
(*                         sendSoapRequest                                 *)
(***************************************************************************)

\* How many invocations of sendSoapRequest may be in flight together.
MaxCalls == 2

Calls == 1..MaxCalls

\* The (endpoint, payload, action) triples callers send: without an action
\* (the second test), with an empty one, with an action URI (the first test).
Targets ==
    { <<"https://example.com/soap", "<GetWeather>INVALID</GetWeather>", << >> >>,
      <<"https://example.com/soap", "<GetWeather>NYC</GetWeather>", <<"">> >>,
      <<"https://example.org/ws", "<GetWeather>NYC</GetWeather>",
        <<"http://example.com/weather/GetWeather">> >> }
\* not passed, the test's fallback '' (AUTH_TOKEN || ''), a real token
BearerTokens == {<< >>, <<"">>, <<"tok123">>}
\* a sixth argument some caller passes, hoping for extra headers
ExtraHeaders ==
    {<< >>,
     <<[h \in {"Authorization", "X-Api-Key"} |->
          IF h = "Authorization" THEN "Basic dXNlcg==" ELSE "key-1"]>>}

Statuses == {200, 403, 500}
TransportErrors == {"ETIMEDOUT", "ENOTFOUND"}

\* JavaScript truthiness of an optional string argument
Truthy(opt) == opt # << >> /\ opt[1] # ""

DefaultHeaderNames == {"Content-Type", "Accept", "SOAPAction", "User-Agent"}

\* `action || ''`
SOAPActionOf(action) == IF Truthy(action) THEN action[1] ELSE ""

BuildHeadersAlwaysAuth(bearerToken, action) ==
    [h \in DefaultHeaderNames \cup
           (IF bearerToken # << >> THEN {"Authorization"} ELSE {}) |->
        CASE h = "Content-Type" -> "text/xml;charset=UTF-8"
          [] h = "Accept" -> "text/xml"
          [] h = "SOAPAction" -> SOAPActionOf(action)
          [] h = "User-Agent" -> "Playwright SOAP Client/1.0"
          [] h = "Authorization" -> "Bearer " \o bearerToken[1]]

\* The headers literal and the `if (bearerToken)` assignment.
BuildHeaders(bearerToken, action) ==
    [h \in DefaultHeaderNames \cup
           (IF Truthy(bearerToken) THEN {"Authorization"} ELSE {}) |->
        CASE h = "Content-Type" -> "text/xml;charset=UTF-8"
          [] h = "Accept" -> "text/xml"
          [] h = "SOAPAction" -> SOAPActionOf(action)
          [] h = "User-Agent" -> "Playwright SOAP Client/1.0"
          [] h = "Authorization" -> "Bearer " \o bearerToken[1]]

\* A variant that spreads a sixth argument over the headers, last.
RequestHeadersMerged(a) ==
    LET base == BuildHeaders(a.bearerToken, a.action)
        extra == IF a.extraHeaders = << >> THEN << >> ELSE a.extraHeaders[1]
    IN  [h \in DOMAIN base \cup DOMAIN extra |->
            IF h \in DOMAIN extra THEN extra[h] ELSE base[h]]

\* The headers of the request, from the arguments object a: only bearerToken
\* and action are parameters, anything passed after them is dropped.
RequestHeaders(a) == BuildHeaders(a.bearerToken, a.action)

\* A binding that lives outside the function: every invocation sees the last
\* value assigned.
BindShared(f, i, v) == [j \in DOMAIN f |-> v]

\* `const x = v` inside invocation i: a binding of that invocation alone.
BindLocal(f, i, v) == [f EXCEPT ![i] = v]

\* The options object handed to request.post(endpoint, {headers, data}).
PostCall(i, a, h) ==
    [caller |-> i, endpoint |-> a.endpoint, headers |-> h, data |-> a.payload]

LogSending(a) == <<"Sending SOAP request to:", a.endpoint>>
Log403Hints ==
    << <<"403 Forbidden Error Details:">>,
       <<"- Check if your bearer token is valid and not expired">>,
       <<"- Verify if additional headers are required">>,
       <<"- Ensure your IP address is allowed to access the service">> >>
LogResponseHeaders(r) == <<"Response headers:", r.id>>
LogError(e) == <<"Error sending SOAP request:", e>>

SendInit ==
    /\ pc = [i \in Calls |-> "idle"]
    /\ args = [i \in Calls |-> Null]
    /\ headers = [i \in Calls |-> Null]
    /\ response = [i \in Calls |-> Null]
    /\ posts = [i \in Calls |-> << >>]
    /\ reply = [i \in Calls |-> Null]
    /\ result = [i \in Calls |-> Null]
    /\ console = [i \in Calls |-> << >>]

\* The call, up to the await of request.post: build the headers, log the
\* endpoint, issue the POST.
SendSoapRequest(i) ==
    /\ pc[i] = "idle"
    /\ \E target \in Targets, bearerToken \in BearerTokens,
          extraHeaders \in ExtraHeaders :
          LET a == [endpoint |-> target[1], payload |-> target[2],
                    bearerToken |-> bearerToken, action |-> target[3],
                    extraHeaders |-> extraHeaders]
              hs == BindLocal(headers, i, RequestHeaders(a))
          IN  /\ args' = [args EXCEPT ![i] = a]
              /\ headers' = hs
              /\ console' = [console EXCEPT ![i] = Append(@, LogSending(a))]
              /\ posts' = [posts EXCEPT ![i] = Append(@, PostCall(i, a, hs[i]))]
    /\ pc' = [pc EXCEPT ![i] = "awaitPost"]
    /\ UNCHANGED <<response, reply, result, extractVars, renderVars>>

\* A variant of the catch block that tries the POST once more.
CatchRetry(i, error) ==
    /\ console' = [console EXCEPT ![i] = Append(@, LogError(error))]
    /\ posts' = [posts EXCEPT ![i] = Append(@, PostCall(i, args[i], headers[i]))]
    /\ result' = [result EXCEPT ![i] = [kind |-> "throw", value |-> error]]
    /\ pc' = [pc EXCEPT ![i] = "done"]
    /\ UNCHANGED response

\* A variant of the catch block that raises a new error of its own.
CatchWrapped(i, error) ==
    /\ console' = [console EXCEPT ![i] = Append(@, LogError(error))]
    /\ result' = [result EXCEPT ![i] =
                    [kind |-> "throw", value |-> "SOAP request failed"]]
    /\ pc' = [pc EXCEPT ![i] = "done"]
    /\ UNCHANGED <<response, posts>>

\* catch (error) { console.error(...); throw error; }
Catch(i, error) ==
    /\ console' = [console EXCEPT ![i] = Append(@, LogError(error))]
    /\ result' = [result EXCEPT ![i] = [kind |-> "throw", value |-> error]]
    /\ pc' = [pc EXCEPT ![i] = "done"]
    /\ UNCHANGED <<response, posts>>

\* A variant of the code after the await that treats a status of 400 or
\* more as a failure.
AfterPostStrict(i, r) ==
    /\ response' = BindLocal(response, i, r)
    /\ IF r.status >= 400
       THEN /\ console' = [console EXCEPT ![i] = @ \o Log403Hints]
            /\ result' = [result EXCEPT ![i] =
                            [kind |-> "throw", value |-> "HTTP error"]]
            /\ pc' = [pc EXCEPT ![i] = "done"]
       ELSE /\ result' = [result EXCEPT ![i] = [kind |-> "return", value |-> r]]
            /\ pc' = [pc EXCEPT ![i] = "done"]
            /\ UNCHANGED console
    /\ UNCHANGED posts

\* The code after `await request.post(...)` when the POST gave response r:
\* bind it; on 403 log the hints and await response.headersArray(); else
\* return it.
AfterPost(i, r) ==
    /\ response' = BindLocal(response, i, r)
    /\ IF r.status = 403
       THEN /\ console' = [console EXCEPT ![i] = @ \o Log403Hints]
            /\ pc' = [pc EXCEPT ![i] = "awaitHeaders"]
            /\ UNCHANGED result
       ELSE /\ result' = [result EXCEPT ![i] =
                            [kind |-> "return", value |-> response'[i]]]
            /\ pc' = [pc EXCEPT ![i] = "done"]
            /\ UNCHANGED console
    /\ UNCHANGED posts

\* The transport fulfils the POST of invocation i with a response of some
\* status, and the invocation resumes.
PostFulfilled(i) ==
    /\ pc[i] = "awaitPost"
    /\ \E status \in Statuses :
          LET r == [id |-> i, status |-> status] IN
          /\ reply' = [reply EXCEPT ![i] = [kind |-> "response", value |-> r]]
          /\ AfterPost(i, r)
    /\ UNCHANGED <<args, headers, extractVars, renderVars>>

\* The transport rejects the POST of invocation i (network error, timeout,
\* DNS failure), and the invocation resumes in its catch block.
PostRejected(i) ==
    /\ pc[i] = "awaitPost"
    /\ \E error \in TransportErrors :
          /\ reply' = [reply EXCEPT ![i] = [kind |-> "error", value |-> error]]
          /\ Catch(i, error)
    /\ UNCHANGED <<args, headers, extractVars, renderVars>>

\* `await response.headersArray()` is over (APIResponse.headersArray only
\* reads the headers the response already holds): log them, return response.
HeadersLogged(i) ==
    /\ pc[i] = "awaitHeaders"
    /\ console' = [console EXCEPT ![i] = Append(@, LogResponseHeaders(response[i]))]
    /\ result' = [result EXCEPT ![i] = [kind |-> "return", value |-> response[i]]]
    /\ pc' = [pc EXCEPT ![i] = "done"]
    /\ UNCHANGED <<args, headers, response, posts, reply, extractVars, renderVars>>

SendNext ==
    \E i \in Calls :
        \/ SendSoapRequest(i)
        \/ PostFulfilled(i)
        \/ PostRejected(i)
        \/ HeadersLogged(i)

(***************************************************************************)
(*                         extractXmlValue                                 *)
(***************************************************************************)

\* How many pieces the xmlResponse argument is put together from.
MaxPieces == 4

\* The tag names tried: two plain names and one with a '.', which XML
\* allows in a name.
Tags == { <<"x">>, <<"y">>, <<"a", ".", "b">> }

OpenTag(t) == <<"<">> \o t \o <<">">>
CloseTag(t) == <<"<", "/">> \o t \o <<">">>

CData == <<"<", "!", "[", "C", "D", "A", "T", "A", "[", "<", "y", ">", "]", "]", ">">>

\* What responses are put together from: opening and closing tags, text,
\* an empty-content position (two tags in a row), a CDATA section.
Pieces ==
    { OpenTag(<<"x">>), CloseTag(<<"x">>),
      OpenTag(<<"y">>), CloseTag(<<"y">>),
      OpenTag(<<"a", "X", "b">>), CloseTag(<<"a", "X", "b">>),
      <<"7", "2">>, <<"N">>, CData }

RECURSIVE Flatten(_)
Flatten(ps) == IF ps = << >> THEN << >> ELSE Head(ps) \o Flatten(Tail(ps))

\* The characters '.' does not match in a JavaScript regular expression.
LineTerminators == {"\n", "\r"}

\* One pattern character against one input character. The tag is pasted
\* into the pattern as it is, so its '.' is the regex wildcard.
MatchChar(p, c) == IF p = "." THEN c \notin LineTerminators ELSE p = c

\* pattern pat matches s at position k (each pattern character consumes one)
MatchesAt(pat, s, k) ==
    /\ k + Len(pat) - 1 <= Len(s)
    /\ \A j \in 1..Len(pat) : MatchChar(pat[j], s[k + j - 1])

\* ([^<]+): the longest run of characters other than '<' from position k;
\* the run's length. No shorter run can be followed by the closing tag,
\* which starts with '<'.
RECURSIVE RunLength(_, _)
RunLength(s, k) ==
    IF k > Len(s) \/ s[k] = "<" THEN 0 ELSE 1 + RunLength(s, k + 1)

\* A variant of the pattern without the closing tag: <tag>([^<]+)
RegexMatchAtOpenOnly(tag, s, k) ==
    LET open == OpenTag(tag)
        n == RunLength(s, k + Len(open))
    IN  /\ MatchesAt(open, s, k)
        /\ n >= 1

\* new RegExp(`<${xpath}>([^<]+)</${xpath}>`) matches s starting at k
RegexMatchAt(tag, s, k) ==
    LET open == OpenTag(tag)
        n == RunLength(s, k + Len(open))
    IN  /\ MatchesAt(open, s, k)
        /\ n >= 1
        /\ MatchesAt(CloseTag(tag), s, k + Len(open) + n)

\* xmlResponse.match(regex): the leftmost match, as [index, value] where
\* value is capture group 1, or Null
StringMatch(s, tag) ==
    LET hits == {k \in 1..Len(s) : RegexMatchAt(tag, s, k)} IN
    IF hits = {} THEN Null
    ELSE LET k == CHOOSE m \in hits : \A o \in hits : m <= o
             from == k + Len(tag) + 2
         IN  [index |-> k,
              value |-> SubSeq(s, from, from + RunLength(s, from) - 1)]

ExtractInit ==
    /\ xPhase = "input"
    /\ \E n \in 0..MaxPieces : \E ps \in [1..n -> Pieces] :
          xmlResponse = Flatten(ps)
    /\ xpath \in Tags
    /\ xResult = Null

\* return match ? match[1] : null   (the match index is kept beside the
\* value so that properties can say where the value came from)
ExtractXmlValue ==
    /\ xPhase = "input"
    /\ xResult' = StringMatch(xmlResponse, xpath)
    /\ xPhase' = "done"
    /\ UNCHANGED <<xmlResponse, xpath, sendVars, renderVars>>

ExtractNext == ExtractXmlValue

(***************************************************************************)
(*                 loadSoapTemplate / processSoapTemplate                  *)
(***************************************************************************)

\* How many statements a template file holds, and how many
\* processSoapTemplate calls a run makes.
MaxTemplateLen == 3
MaxRenders == 3

\* The template that exists under api/requests, and a name with no file.
TemplateNames == {"getWeatherRequest", "noSuchTemplate"}

PlaceholderNames == {"cityCode", "sessionId"}

\* A template file as Handlebars.compile reads it: a sequence of content
\* statements (literal text) and mustache statements ({{name}}).
Statements ==
    { [type |-> "content", chars |-> <<"<", "c", ">">>] }
    \cup { [type |-> "mustache", name |-> n] : n \in PlaceholderNames }

TemplateFiles == UNION { [1..n -> Statements] : n \in 0..MaxTemplateLen }

\* The values callers substitute: a plain one and one with a character
\* Handlebars escapes.
Values == { <<"N", "Y", "C">>, <<"a", "&", "b">>, <<"s", "1">> }

ValuesOf(name) ==
    IF name = "cityCode" THEN { <<"N", "Y", "C">>, <<"a", "&", "b">> }
    ELSE { <<"s", "1">> }

\* The data objects: any subset of the placeholder names, each with a value.
DataSets ==
    UNION { {d \in [ks -> Values] : \A k \in ks : d[k] \in ValuesOf(k)} :
            ks \in SUBSET PlaceholderNames }

Undefined == [undefined |-> TRUE]

\* The character U+0060, which cannot be written inside a TLA+ string.
Backquote == "U+0060"

\* Handlebars' escapeExpression on one character
EscapeChar(c) ==
    CASE c = "&" -> <<"&", "a", "m", "p", ";">>
      [] c = "<" -> <<"&", "l", "t", ";">>
      [] c = ">" -> <<"&", "g", "t", ";">>
      [] c = "\"" -> <<"&", "q", "u", "o", "t", ";">>
      [] c = "'" -> <<"&", "#", "x", "2", "7", ";">>
      [] c = Backquote -> <<"&", "#", "x", "6", "0", ";">>
      [] c = "=" -> <<"&", "#", "x", "3", "D", ";">>
      [] OTHER -> <<c>>

RECURSIVE EscapeChars(_)
EscapeChars(v) ==
    IF v = << >> THEN << >> ELSE EscapeChar(Head(v)) \o EscapeChars(Tail(v))

\* A variant that formats a missing value the way a template literal does.
EscapeExpressionStringify(v) ==
    IF v = Undefined THEN <<"u", "n", "d", "e", "f", "i", "n", "e", "d">>
    ELSE EscapeChars(v)

\* Handlebars' escapeExpression: null and undefined give the empty string
EscapeExpression(v) == IF v = Undefined THEN << >> ELSE EscapeChars(v)

\* Handlebars' lookup of a name in the context object (not in strict mode:
\* Handlebars.compile is called without options)
LookupProperty(data, name) ==
    IF name \in DOMAIN data THEN data[name] ELSE Undefined

\* template(data): the compiled template run on the data
RECURSIVE Template(_, _)
Template(stmts, data) ==
    IF stmts = << >> THEN << >>
    ELSE LET st == Head(stmts)
             out == IF st.type = "content" THEN st.chars
                    ELSE EscapeExpression(LookupProperty(data, st.name))
         IN  out \o Template(Tail(stmts), data)

\* loadSoapTemplate: fs.readFileSync throws when the file does not exist;
\* else the content is compiled
LoadSoapTemplate(fs, templateName) ==
    IF templateName \in DOMAIN fs
    THEN [kind |-> "ok", value |-> fs[templateName]]
    ELSE [kind |-> "throw", value |-> "ENOENT"]

RenderInit ==
    /\ \E content \in TemplateFiles :
          files = [n \in {"getWeatherRequest"} |-> content]
    /\ renders = << >>

\* A variant that saves the rendered payload over the template file.
ProcessSoapTemplateInPlace(templateName, data) ==
    LET t == LoadSoapTemplate(files, templateName)
        outcome == IF t.kind = "ok"
                   THEN [kind |-> "ok", value |-> Template(t.value, data)]
                   ELSE t
    IN  /\ renders' = Append(renders, [templateName |-> templateName,
                                       data |-> data, outcome |-> outcome])
        /\ files' = IF t.kind = "ok"
                    THEN [files EXCEPT ![templateName] =
                            << [type |-> "content", chars |-> outcome.value] >>]
                    ELSE files

\* processSoapTemplate(templateName, data): load, compile, run; nothing is
\* written. The call and its outcome are appended to renders.
ProcessSoapTemplate(templateName, data) ==
    LET t == LoadSoapTemplate(files, templateName)
        outcome == IF t.kind = "ok"
                   THEN [kind |-> "ok", value |-> Template(t.value, data)]
                   ELSE t
    IN  /\ renders' = Append(renders, [templateName |-> templateName,
                                       data |-> data, outcome |-> outcome])
        /\ files' = files

RenderCall ==
    /\ Len(renders) < MaxRenders
    /\ \E templateName \in TemplateNames, data \in DataSets :
          ProcessSoapTemplate(templateName, data)
    /\ UNCHANGED <<sendVars, extractVars>>

RenderNext == RenderCall

ExtractIdle ==
    /\ xPhase = "input"
    /\ xmlResponse = << >>
    /\ xpath = <<"x">>
    /\ xResult = Null

RenderIdle ==
    /\ files = << >>
    /\ renders = << >>

\* Each specification runs one of the three functions, the other two not called.
SendSpecInit == SendInit /\ ExtractIdle /\ RenderIdle

ExtractSpecInit == ExtractInit /\ SendInit /\ RenderIdle

RenderSpecInit == RenderInit /\ SendInit /\ ExtractIdle

SendSpec == SendSpecInit /\ [][SendNext]_vars

ExtractSpec == ExtractSpecInit /\ [][ExtractNext]_vars

RenderSpec == RenderSpecInit /\ [][RenderNext]_vars

(***************************************************************************)
(*                              Properties                                 *)
(***************************************************************************)

Issued(i) == pc[i] # "idle"
Post(i) == posts[i][1]
Settled(i) == pc[i] = "done"

\* C1: every invocation of sendSoapRequest issues exactly one POST, whether
\* the transport answers or fails: none before the call, one from the call
\* on, never a second one.
C1_ExactlyOnePost ==
    \A i \in Calls :
        Len(posts[i]) = (IF Issued(i) THEN 1 ELSE 0)

\* C1 witness: one invocation ended with the transport's error, another
\* with a response, each with its single POST.
C1_Witness ==
    \E i, j \in Calls :
        /\ Settled(i) /\ result[i].kind = "throw" /\ Len(posts[i]) = 1
        /\ Settled(j) /\ result[j].kind = "return" /\ Len(posts[j]) = 1

\* C2: when the POST completes with a response, whatever its status,
\* sendSoapRequest returns that same response and never raises; the 403
\* logging changes nothing of that.
C2_ResponsePassedThrough ==
    \A i \in Calls :
        (reply[i] # Null /\ reply[i].kind = "response") =>
            /\ result[i] # Null => result[i] = [kind |-> "return", value |-> reply[i].value]
            /\ Settled(i) => result[i] # Null

\* C2 witness: a 403 response was logged, headers included, and returned.
C2_Witness ==
    \E i \in Calls :
        /\ Settled(i)
        /\ reply[i].kind = "response"
        /\ reply[i].value.status = 403
        /\ console[i][Len(console[i])] = LogResponseHeaders(reply[i].value)
        /\ result[i].value = reply[i].value

\* C3: when the POST fails, the error is logged and then the same error is
\* raised, and no response returned; every error raised is the transport's.
C3_ErrorRethrownUnchanged ==
    \A i \in Calls :
        /\ (reply[i] # Null /\ reply[i].kind = "error") =>
              /\ result[i] = [kind |-> "throw", value |-> reply[i].value]
              /\ console[i][Len(console[i])] = LogError(reply[i].value)
        /\ (result[i] # Null /\ result[i].kind = "throw") =>
              /\ reply[i] # Null
              /\ reply[i] = [kind |-> "error", value |-> result[i].value]

\* C3 witness: an invocation raised the transport's timeout error.
C3_Witness ==
    \E i \in Calls :
        /\ Settled(i)
        /\ reply[i] = [kind |-> "error", value |-> "ETIMEDOUT"]
        /\ result[i] = [kind |-> "throw", value |-> "ETIMEDOUT"]

\* a bearerToken argument was passed at all
TokenSupplied(a) == a.bearerToken # << >>
\* a bearerToken argument was passed and is not the empty string
TokenNonEmpty(a) == a.bearerToken # << >> /\ a.bearerToken[1] # ""

\* C4 as stated: the request carries Authorization if and only if a
\* bearerToken was supplied, then with the value "Bearer " + token; the four
\* default headers are there in both cases.
C4_AuthorizationIffSupplied ==
    \A i \in Calls : Issued(i) =>
        LET h == Post(i).headers IN
        /\ ("Authorization" \in DOMAIN h) <=> TokenSupplied(args[i])
        /\ "Authorization" \in DOMAIN h =>
              h["Authorization"] = "Bearer " \o args[i].bearerToken[1]
        /\ DefaultHeaderNames \subseteq DOMAIN h

\* C4 amended: the request carries Authorization if and only if a non-empty
\* bearerToken was supplied, then with the value "Bearer " + token; the four
\* default headers are there in both cases.
C4_AuthorizationIffNonEmptyToken ==
    \A i \in Calls : Issued(i) =>
        LET h == Post(i).headers IN
        /\ ("Authorization" \in DOMAIN h) <=> TokenNonEmpty(args[i])
        /\ "Authorization" \in DOMAIN h =>
              h["Authorization"] = "Bearer " \o args[i].bearerToken[1]
        /\ DefaultHeaderNames \subseteq DOMAIN h

\* C4 witness: one request went out with "Bearer tok123", another, called
\* with the empty token, without Authorization.
C4_Witness ==
    \E i, j \in Calls :
        /\ Issued(i) /\ args[i].bearerToken = <<"tok123">>
        /\ "Authorization" \in DOMAIN Post(i).headers
        /\ Post(i).headers["Authorization"] = "Bearer tok123"
        /\ Issued(j) /\ args[j].bearerToken = <<"">>
        /\ "Authorization" \notin DOMAIN Post(j).headers

\* C5 as stated: every key of the extraHeaders passed is in the request
\* with the extraHeaders value, overriding defaults and Authorization.
C5_ExtraHeadersMergedLast ==
    \A i \in Calls : (Issued(i) /\ args[i].extraHeaders # << >>) =>
        LET h == Post(i).headers
            extra == args[i].extraHeaders[1]
        IN  \A k \in DOMAIN extra : k \in DOMAIN h /\ h[k] = extra[k]

\* C5 amended: sendSoapRequest takes no extraHeaders; a mapping passed after
\* action is ignored. The request's headers are the four defaults, with
\* SOAPAction the action or empty, and Authorization "Bearer " + token for a
\* non-empty token: nothing else, nothing overridden.
C5_ExtraHeadersIgnored ==
    \A i \in Calls : Issued(i) =>
        LET h == Post(i).headers IN
        /\ DOMAIN h \subseteq DefaultHeaderNames \cup {"Authorization"}
        /\ h["Content-Type"] = "text/xml;charset=UTF-8"
        /\ h["Accept"] = "text/xml"
        /\ h["User-Agent"] = "Playwright SOAP Client/1.0"
        /\ h["SOAPAction"] =
              (IF args[i].action = << >> THEN "" ELSE args[i].action[1])
        /\ "Authorization" \in DOMAIN h =>
              h["Authorization"] = "Bearer " \o args[i].bearerToken[1]

\* C5 witness: a call passed extra headers (an Authorization override and an
\* API key) with a token, and the request kept "Bearer tok123" and no key.
C5_Witness ==
    \E i \in Calls :
        /\ Issued(i)
        /\ args[i].extraHeaders # << >>
        /\ args[i].bearerToken = <<"tok123">>
        /\ Post(i).headers["Authorization"] = "Bearer tok123"
        /\ "X-Api-Key" \notin DOMAIN Post(i).headers

\* C10: under every interleaving of invocations, each POST carries the
\* endpoint, payload and headers of its own invocation's arguments, and each
\* caller receives the response or error of its own POST.
C10_NoInterference ==
    \A i \in Calls : Issued(i) =>
        LET h == Post(i).headers
            a == args[i]
        IN  /\ Post(i).endpoint = a.endpoint
            /\ Post(i).data = a.payload
            /\ h["SOAPAction"] = (IF a.action = << >> THEN "" ELSE a.action[1])
            /\ ("Authorization" \in DOMAIN h) <=> TokenNonEmpty(a)
            /\ "Authorization" \in DOMAIN h =>
                  h["Authorization"] = "Bearer " \o a.bearerToken[1]
            /\ result[i] # Null =>
                  /\ reply[i] # Null
                  /\ result[i].value = reply[i].value
                  /\ (result[i].kind = "return") <=> (reply[i].kind = "response")
                  /\ result[i].kind = "return" => result[i].value.id = i

\* C10 witness: two invocations with different endpoints, tokens and actions
\* overlapped: one was still awaiting the 403 response's headers when the
\* other, started before that, had already returned its own response.
C10_Witness ==
    \E i, j \in Calls :
        /\ i # j
        /\ pc[i] = "awaitHeaders"
        /\ Settled(j) /\ result[j].kind = "return" /\ result[j].value.id = j
        /\ args[i].endpoint # args[j].endpoint
        /\ args[i].bearerToken # args[j].bearerToken
        /\ args[i].action # args[j].action

\* s holds exactly the characters lit from position k on
LiteralAt(lit, s, k) ==
    /\ k >= 1
    /\ k + Len(lit) - 1 <= Len(s)
    /\ SubSeq(s, k, k + Len(lit) - 1) = lit

\* a literal <tag>text</tag> starts at k, text a non-empty run without '<'
ElementAt(tag, s, k) ==
    LET from == k + Len(tag) + 2
        n == RunLength(s, from)
    IN  /\ LiteralAt(OpenTag(tag), s, k)
        /\ n >= 1
        /\ LiteralAt(CloseTag(tag), s, from + n)

\* the text between the opening tag at k and the next '<'
TextAfterOpen(tag, s, k) ==
    LET from == k + Len(tag) + 2
    IN  SubSeq(s, from, from + RunLength(s, from) - 1)

\* C6: extractXmlValue returns null when xmlResponse holds no literal
\* <tag>text</tag>, and else the inner text of the first one.
C6_FirstLiteralElement ==
    xPhase = "done" =>
        LET occ == {k \in 1..Len(xmlResponse) : ElementAt(xpath, xmlResponse, k)}
        IN  IF occ = {} THEN xResult = Null
            ELSE LET k == CHOOSE m \in occ : \A o \in occ : m <= o
                 IN  /\ xResult # Null
                     /\ xResult.value = TextAfterOpen(xpath, xmlResponse, k)

\* a literal <tag> opens at k, a literal </tag> follows later, and a '<'
\* stands between them: the content holds a nested tag or a CDATA section
NestedElementAt(tag, s, k) ==
    LET from == k + Len(tag) + 2
        lt == from + RunLength(s, from)
    IN  /\ LiteralAt(OpenTag(tag), s, k)
        /\ lt <= Len(s)
        /\ ~LiteralAt(CloseTag(tag), s, lt)
        /\ \E c \in (lt + 1)..Len(s) : LiteralAt(CloseTag(tag), s, c)

CDataExample == OpenTag(<<"x">>) \o CData \o CloseTag(<<"x">>)

\* C7 as stated: when the content of the first <tag> element contains a
\* '<', extractXmlValue returns the text after the opening tag up to the
\* nested tag, and not null; so for <x><![CDATA[<y>]]></x> and x.
C7_TextUpToNestedTag ==
    xPhase = "done" =>
        LET opens == {k \in 1..Len(xmlResponse) :
                        LiteralAt(OpenTag(xpath), xmlResponse, k)}
        IN  opens # {} =>
            LET k == CHOOSE m \in opens : \A o \in opens : m <= o
            IN  NestedElementAt(xpath, xmlResponse, k) =>
                    /\ xResult # Null
                    /\ xResult.value = TextAfterOpen(xpath, xmlResponse, k)

\* C7 amended: an element whose content contains a '<' is skipped, never
\* cut short at the nested tag: the value returned is never taken from such
\* an element, it is non-empty, has no '<' and is followed at once by a
\* closing tag; and for <x><![CDATA[<y>]]></x> and x the result is null.
C7_NestedElementSkipped ==
    xPhase = "done" =>
        /\ (xmlResponse = CDataExample /\ xpath = <<"x">>) => xResult = Null
        /\ \A k \in 1..Len(xmlResponse) :
              NestedElementAt(xpath, xmlResponse, k) =>
                  (xResult = Null \/ xResult.index # k)
        /\ xResult # Null =>
              LET after == xResult.index + Len(xpath) + 2 + Len(xResult.value)
              IN  /\ Len(xResult.value) >= 1
                  /\ "<" \notin Range(xResult.value)
                  /\ LiteralAt(<<"<", "/">>, xmlResponse, after)

\* C7 witness: extractXmlValue was called on <x><![CDATA[<y>]]></x> with x
\* and returned null.
C7_Witness ==
    /\ xPhase = "done"
    /\ xmlResponse = CDataExample
    /\ xpath = <<"x">>
    /\ xResult = Null

\* the placeholders the template references that data has no key for
MissingPlaceholders(stmts, data) ==
    {stmts[k].name : k \in {m \in DOMAIN stmts : stmts[m].type = "mustache"}}
        \ DOMAIN data

\* data with the empty string under every name in ks
WithEmpty(data, ks) ==
    [k \in DOMAIN data \cup ks |-> IF k \in DOMAIN data THEN data[k] ELSE << >>]

C8_Deterministic ==
    \A i, j \in DOMAIN renders :
        (renders[i].templateName = renders[j].templateName
            /\ renders[i].data = renders[j].data)
        => renders[i].outcome = renders[j].outcome

C9_MissingIsEmptyString ==
    \A i \in DOMAIN renders :
        LET r == renders[i] IN
        (r.templateName \in DOMAIN files
            /\ MissingPlaceholders(files[r.templateName], r.data) # {}) =>
            /\ r.outcome.kind = "ok"
            /\ r.outcome.value =
                  Template(files[r.templateName],
                           WithEmpty(r.data,
                               MissingPlaceholders(files[r.templateName], r.data)))
            /\ "{" \notin Range(r.outcome.value)
            /\ "}" \notin Range(r.outcome.value)

\* C9 witness: a template referencing cityCode and sessionId was rendered
\* with cityCode only (a value that is escaped), and the output holds the
\* escaped cityCode and nothing for sessionId.
C9_Witness ==
    \E i \in DOMAIN renders :
        LET r == renders[i] IN
        /\ r.templateName = "getWeatherRequest"
        /\ files["getWeatherRequest"] =
              << [type |-> "mustache", name |-> "cityCode"],
                 [type |-> "content", chars |-> <<"<", "c", ">">>],
                 [type |-> "mustache", name |-> "sessionId"] >>
        /\ DOMAIN r.data = {"cityCode"}
        /\ r.data["cityCode"] = <<"a", "&", "b">>
        /\ r.outcome = [kind |-> "ok",
                        value |-> <<"a", "&", "a", "m", "p", ";", "b", "<", "c", ">">>]

====
